---- MODULE Spec2Model ----
(***************************************************************************)
(* Model of flash_card.py: the word-rotation and progress-tracking engine  *)
(* of the tkinter vocabulary drill.  The module-level globals of the       *)
(* program are the variables; every event handler is one action.           *)
(*                                                                         *)
(* Words and definitions are natural numbers (word 1, word 2, ...), list   *)
(* identifiers "list1", "list2", ... are the numbers 1, 2, ...             *)
(***************************************************************************)
EXTENDS Naturals, Sequences, FiniteSets, TLC

VARIABLES
    running,          \* TRUE between main() reaching mainloop and root.destroy()
    progress_data,    \* dict: list identifier -> list of remembered words
    current_list,     \* identifier of the active list
    words,            \* entries of the active list, in CSV row order
    remembered_words, \* set of remembered word strings of the active list
    current,          \* entry on display, or None
    round_list,       \* entries not yet shown in this round
    revealed,         \* whether the definition of current is on display
    file,             \* content of progress.json on disk
    event,            \* the event handled last
    faults,           \* number of calls of save_progress that are still to raise
    shown             \* entries assigned to current since round_list was rebuilt

vars == <<running, progress_data, current_list, words, remembered_words,
          current, round_list, revealed, file, event, faults, shown>>

---------------------------------------------------------------------------
(* Bounds of the model *)

\* number of list identifiers modelled (the program offers list1 .. list9)
NumLists == 2

\* longest list of words of one entry of a progress.json found at startup
MaxStored == 1

\* number of calls of save_progress that raise in a run with write errors
MaxFaults == 1

---------------------------------------------------------------------------
(* Values *)

Lists == 1..NumLists

\* Python's None as the value of `current`
None == [word |-> 0, definition |-> 0]

WordEntry(w, d) == [word |-> w, definition |-> d]

\* the word texts that occur in the CSV files
Vocabulary == {1, 2}

\* the rows of vocabulary_csv/list<l>.csv: list1 holds two different words;
\* list2 holds two rows with the same word text and different definitions;
\* the other lists have no file
CsvRows(l) ==
    IF l = 1 THEN <<WordEntry(1, 11), WordEntry(2, 12)>>
    ELSE IF l = 2 THEN <<WordEntry(1, 21), WordEntry(1, 22)>>
    ELSE << >>

\* load_words(filename): the rows of the file, or no rows when the file is
\* not found
load_words(l) == {CsvRows(l), << >>}

---------------------------------------------------------------------------
(* Python dict, kept in insertion order as a sequence of key/value pairs *)

DictKeys(d) == {d[i].key : i \in DOMAIN d}

DictHas(d, k) == k \in DictKeys(d)

\* d.get(k, [])
DictGet(d, k) ==
    IF DictHas(d, k)
    THEN d[CHOOSE i \in DOMAIN d : d[i].key = k].val
    ELSE << >>

\* d[k] = v
DictSet(d, k, v) ==
    IF DictHas(d, k)
    THEN [i \in DOMAIN d |-> IF d[i].key = k THEN [key |-> k, val |-> v] ELSE d[i]]
    ELSE Append(d, [key |-> k, val |-> v])

\* set(a_list)
SetOf(s) == {s[i] : i \in DOMAIN s}

\* list(a_set): the elements once each, in the set's iteration order, which
\* depends on the hash seed of the process
ListsOf(S) ==
    {[i \in DOMAIN p |-> p[i]] : p \in
        {q \in [1..Cardinality(S) -> S] : \A i, j \in 1..Cardinality(S) :
                                              q[i] = q[j] => i = j}}

\* random.shuffle(a_list): any reordering of the list
Shuffles(s) ==
    IF s = << >> THEN {<< >>}
    ELSE {[i \in DOMAIN s |-> s[p[i]]] : p \in Permutations(DOMAIN s)}

\* [w for w in a_list if w['word'] not in remembered]
Unremembered(s, remembered) == SelectSeq(s, LAMBDA w : w.word \notin remembered)

---------------------------------------------------------------------------
(* progress.json: json.dump and json.load *)

Tok(t, v) == [t |-> t, v |-> v]

\* the text json.dump writes for a dict of lists of strings: for each key in
\* insertion order the key, its strings, and the end of its array
RECURSIVE JsonDump(_)
JsonDump(d) ==
    IF d = << >> THEN << >>
    ELSE <<Tok("key", d[1].key)>>
         \o [i \in DOMAIN d[1].val |-> Tok("str", d[1].val[i])]
         \o <<Tok("end", 0)>>
         \o JsonDump(Tail(d))

\* json.load of such a text: a key that occurs twice keeps its last value
RECURSIVE JsonLoadInto(_, _)
JsonLoadInto(text, d) ==
    IF text = << >> THEN d
    ELSE LET n == CHOOSE i \in DOMAIN text :
                      /\ text[i].t = "end"
                      /\ \A j \in 1..(i - 1) : text[j].t # "end"
             val == [j \in 1..(n - 2) |-> text[j + 1].v]
         IN  JsonLoadInto(SubSeq(text, n + 1, Len(text)),
                          DictSet(d, text[1].v, val))

JsonLoad(text) == JsonLoadInto(text, << >>)

\* states of the file progress.json
Absent  == [kind |-> "absent",  text |-> << >>]   \* os.path.exists is False
Corrupt == [kind |-> "corrupt", text |-> << >>]   \* json.load raises
NonDict == [kind |-> "nondict", text |-> << >>]   \* valid JSON, root no dict
DictFile(d) == [kind |-> "dict", text |-> JsonDump(d)]

\* load_progress with line 88 replacing the dict: progress_data =
\* {current_list: []} when the loaded dict lacks the current list
load_progress_Fresh(f, cl) ==
    LET loaded == IF f.kind = "dict" THEN JsonLoad(f.text) ELSE << >>
    IN  IF DictHas(loaded, cl) THEN loaded
        ELSE <<[key |-> cl, val |-> << >>]>>

\* load_progress(): the value of progress_data it leaves
load_progress(f, cl) ==
    LET loaded == IF f.kind = "dict" THEN JsonLoad(f.text) ELSE << >>
    IN  IF DictHas(loaded, cl) THEN loaded
        ELSE Append(loaded, [key |-> cl, val |-> << >>])

\* how a call of save_progress() can end: the file written in full; open()
\* raising, the file as before; the write raising after open() truncated it
SaveOutcomes == {"written", "open_failed", "write_failed"}

\* save_progress() of dict d; every exception is caught and printed
save_progress(d) ==
    \E outcome \in SaveOutcomes :
        /\ outcome # "written" => faults > 0
        /\ faults' = IF outcome = "written" THEN faults ELSE faults - 1
        /\ file' = CASE outcome = "written"      -> DictFile(d)
                     [] outcome = "open_failed"  -> file
                     [] outcome = "write_failed" -> Corrupt

---------------------------------------------------------------------------
(* Round engine *)

\* get_new_word without line 152: the words remembered since the round was
\* built stay in round_list
get_new_word_Unfiltered(rl, ws, rem, sh) ==
    \E q \in (IF rl # << >> THEN {rl} ELSE Shuffles(Unremembered(ws, rem))) :
        /\ IF q = << >>
           THEN /\ current' = None
                /\ round_list' = << >>
           ELSE /\ current' = Head(q)
                /\ round_list' = Tail(q)
        /\ revealed' = FALSE
        /\ shown' = (IF rl # << >> THEN sh ELSE {})
                    \cup (IF q = << >> THEN {} ELSE {Head(q)})

\* get_new_word without lines 153-156: no new round when round_list runs out
get_new_word_NoRebuild(rl, ws, rem, sh) ==
    LET q == Unremembered(rl, rem)
    IN  /\ IF q = << >>
           THEN /\ current' = None
                /\ round_list' = << >>
           ELSE /\ current' = Head(q)
                /\ round_list' = Tail(q)
        /\ revealed' = FALSE
        /\ shown' = sh \cup (IF q = << >> THEN {} ELSE {Head(q)})

\* get_new_word with round_list[0] in place of round_list.pop(0) in line 160
get_new_word_NoPop(rl, ws, rem, sh) ==
    LET filtered == Unremembered(rl, rem)
    IN  \E q \in (IF filtered # << >> THEN {filtered}
                  ELSE Shuffles(Unremembered(ws, rem))) :
            /\ IF q = << >>
               THEN current' = None
               ELSE current' = Head(q)
            /\ round_list' = q
            /\ revealed' = FALSE
            /\ shown' = (IF filtered # << >> THEN sh ELSE {})
                        \cup (IF q = << >> THEN {} ELSE {Head(q)})

\* get_new_word with a new round of all words in place of line 155
get_new_word_AllWords(rl, ws, rem, sh) ==
    LET filtered == Unremembered(rl, rem)
    IN  \E q \in (IF filtered # << >> THEN {filtered} ELSE Shuffles(ws)) :
            /\ IF q = << >>
               THEN /\ current' = None
                    /\ round_list' = << >>
               ELSE /\ current' = Head(q)
                    /\ round_list' = Tail(q)
            /\ revealed' = FALSE
            /\ shown' = (IF filtered # << >> THEN sh ELSE {})
                        \cup (IF q = << >> THEN {} ELSE {Head(q)})

\* get_new_word without line 161: revealed keeps its value
get_new_word_KeepsRevealed(rl, ws, rem, sh) ==
    LET filtered == Unremembered(rl, rem)
    IN  \E q \in (IF filtered # << >> THEN {filtered}
                  ELSE Shuffles(Unremembered(ws, rem))) :
            /\ IF q = << >>
               THEN /\ current' = None
                    /\ round_list' = << >>
               ELSE /\ current' = Head(q)
                    /\ round_list' = Tail(q)
            /\ revealed' = revealed
            /\ shown' = (IF filtered # << >> THEN sh ELSE {})
                        \cup (IF q = << >> THEN {} ELSE {Head(q)})

\* get_new_word() with round_list = rl, words = ws, remembered_words = rem;
\* sh holds the entries shown so far in the round that rl belongs to
get_new_word(rl, ws, rem, sh) ==
    LET filtered == Unremembered(rl, rem)
    IN  \E q \in (IF filtered # << >> THEN {filtered}
                  ELSE Shuffles(Unremembered(ws, rem))) :
            /\ IF q = << >>
               THEN /\ current' = None
                    /\ round_list' = << >>
               ELSE /\ current' = Head(q)
                    /\ round_list' = Tail(q)
            /\ revealed' = FALSE
            /\ shown' = (IF filtered # << >> THEN sh ELSE {})
                        \cup (IF q = << >> THEN {} ELSE {Head(q)})

\* update_display(): the two numbers of the progress label
\* the text update_display() puts in def_label; 0 stands for the empty text
DisplayDefinition ==
    IF current = None THEN 0
    ELSE IF revealed THEN current.definition ELSE 0

DisplayRemembered == Cardinality(remembered_words)
DisplayTotal == Len(words)

---------------------------------------------------------------------------
(* Startup and exit *)

\* the lists of at most n words
ListsUpTo(n) == UNION {[1..m -> Vocabulary] : m \in 0..n}

\* the dicts of lists of at most n words, over any of the list identifiers
\* in any order
Stores(n) ==
    LET KeyOrders ==
            {ks \in UNION {[1..m -> Lists] : m \in 0..NumLists} :
                \A i, j \in DOMAIN ks : ks[i] = ks[j] => i = j}
    IN  UNION {{[i \in DOMAIN ks |-> [key |-> ks[i], val |-> vs[i]]] :
                    vs \in [DOMAIN ks -> ListsUpTo(n)]} : ks \in KeyOrders}

\* the progress.json files a process may find at startup
InitialFiles ==
    {Absent, Corrupt, NonDict} \cup {DictFile(d) : d \in Stores(MaxStored)}

\* the module-level assignments of lines 40-42 and 136-140
ModuleLevel ==
    /\ progress_data = << >>
    /\ current_list = 1
    /\ words = << >>
    /\ remembered_words = {}
    /\ current = None
    /\ round_list = << >>
    /\ revealed = FALSE

\* the process before main() runs, beside some progress.json
Imported ==
    /\ running = FALSE
    /\ ModuleLevel
    /\ file \in InitialFiles
    /\ event = "import"
    /\ shown = {}

\* a run in which every write of progress.json succeeds
Init ==
    /\ Imported
    /\ faults = 0

\* a run in which MaxFaults calls of save_progress may raise
InitF ==
    /\ Imported
    /\ faults = MaxFaults

\* main() up to root.mainloop()
Main ==
    /\ ~running
    /\ running' = TRUE
    /\ event' = "main"
    /\ progress_data' = load_progress(file, current_list)
    /\ words' \in load_words(current_list)
    /\ remembered_words' =
           remembered_words \cup SetOf(DictGet(progress_data', current_list))
    /\ \E rl \in Shuffles(Unremembered(words', remembered_words')) :
           get_new_word(rl, words', remembered_words', {})
    /\ UNCHANGED <<current_list, file, faults>>

\* key q: root.destroy() ends mainloop and the process; the next process
\* starts from the module-level values and the file left on disk
KeyQ ==
    /\ running
    /\ running' = FALSE
    /\ event' = "q"
    /\ progress_data' = << >>
    /\ current_list' = 1
    /\ words' = << >>
    /\ remembered_words' = {}
    /\ current' = None
    /\ round_list' = << >>
    /\ revealed' = FALSE
    /\ shown' = {}
    /\ UNCHANGED <<file, faults>>

---------------------------------------------------------------------------
(* Event handlers.  `event` names the command an event was handled as, or   *)
(* the key when the handler returned without doing anything.                *)

\* key Return that only reveals: with the definition on display it returns
KeyReturn_RevealOnly ==
    /\ running
    /\ IF current # None /\ ~revealed
       THEN /\ event' = "reveal"
            /\ revealed' = TRUE
       ELSE /\ event' = "Return"
            /\ UNCHANGED revealed
    /\ UNCHANGED <<running, progress_data, current_list, words, current,
                   round_list, shown, remembered_words, file, faults>>

\* key Return: reveal the definition, or move on to the next word
KeyReturn ==
    /\ running
    /\ IF current = None
       THEN /\ event' = "Return"
            /\ UNCHANGED <<current, round_list, revealed, shown>>
       ELSE IF ~revealed
       THEN /\ event' = "reveal"
            /\ revealed' = TRUE
            /\ UNCHANGED <<current, round_list, shown>>
       ELSE /\ event' = "advance"
            /\ get_new_word(round_list, words, remembered_words, shown)
    /\ UNCHANGED <<running, progress_data, current_list, words,
                   remembered_words, file, faults>>

\* key space that also moves on: get_new_word() after save_progress()
KeySpace_Advances ==
    /\ running
    /\ IF current = None
       THEN /\ event' = "space"
            /\ UNCHANGED <<remembered_words, progress_data, file, faults,
                           current, round_list, revealed, shown>>
       ELSE /\ event' = "markRemembered"
            /\ remembered_words' = remembered_words \cup {current.word}
            /\ \E l \in ListsOf(remembered_words') :
                   progress_data' = DictSet(progress_data, current_list, l)
            /\ save_progress(progress_data')
            /\ get_new_word(round_list, words, remembered_words', shown)
    /\ UNCHANGED <<running, current_list, words>>

\* key space without line 208: the mark goes to remembered_words only
KeySpace_NoStore ==
    /\ running
    /\ IF current = None
       THEN /\ event' = "space"
            /\ UNCHANGED <<remembered_words, progress_data, file, faults>>
       ELSE /\ event' = "markRemembered"
            /\ remembered_words' = remembered_words \cup {current.word}
            /\ progress_data' = progress_data
            /\ save_progress(progress_data')
    /\ UNCHANGED <<running, current_list, words, current, round_list,
                   revealed, shown>>

\* key space with save_progress() called before line 208 has put the new
\* list into progress_data
KeySpace_SavesFirst ==
    /\ running
    /\ IF current = None
       THEN /\ event' = "space"
            /\ UNCHANGED <<remembered_words, progress_data, file, faults>>
       ELSE /\ event' = "markRemembered"
            /\ remembered_words' = remembered_words \cup {current.word}
            /\ save_progress(progress_data)
            /\ \E l \in ListsOf(remembered_words') :
                   progress_data' = DictSet(progress_data, current_list, l)
    /\ UNCHANGED <<running, current_list, words, current, round_list,
                   revealed, shown>>

\* key space: mark the word on display as remembered and save
KeySpace ==
    /\ running
    /\ IF current = None
       THEN /\ event' = "space"
            /\ UNCHANGED <<remembered_words, progress_data, file, faults>>
       ELSE /\ event' = "markRemembered"
            /\ remembered_words' = remembered_words \cup {current.word}
            /\ \E l \in ListsOf(remembered_words') :
                   progress_data' = DictSet(progress_data, current_list, l)
            /\ save_progress(progress_data')
    /\ UNCHANGED <<running, current_list, words, current, round_list,
                   revealed, shown>>

\* key n without the test of revealed in line 212
KeyN_IgnoresRevealed ==
    /\ running
    /\ IF current # None
       THEN /\ event' = "skip"
            /\ get_new_word(round_list, words, remembered_words, shown)
       ELSE /\ event' = "n"
            /\ UNCHANGED <<current, round_list, revealed, shown>>
    /\ UNCHANGED <<running, progress_data, current_list, words,
                   remembered_words, file, faults>>

\* key n handled like key space followed by a new word
KeyN_Remembers ==
    /\ running
    /\ IF current # None /\ revealed
       THEN /\ event' = "skip"
            /\ remembered_words' = remembered_words \cup {current.word}
            /\ get_new_word(round_list, words, remembered_words', shown)
       ELSE /\ event' = "n"
            /\ UNCHANGED <<current, round_list, revealed, shown,
                           remembered_words>>
    /\ UNCHANGED <<running, progress_data, current_list, words, file, faults>>

\* key n: skip the word on display once its definition is revealed
KeyN ==
    /\ running
    /\ IF current # None /\ revealed
       THEN /\ event' = "skip"
            /\ get_new_word(round_list, words, remembered_words, shown)
       ELSE /\ event' = "n"
            /\ UNCHANGED <<current, round_list, revealed, shown>>
    /\ UNCHANGED <<running, progress_data, current_list, words,
                   remembered_words, file, faults>>

\* reset_current with the loop of reset_all in place of line 231
reset_current_ClearsAll ==
    /\ running
    /\ \E yes \in BOOLEAN :
         IF yes
         THEN /\ event' = "resetCurrentList"
              /\ remembered_words' = {}
              /\ progress_data' =
                     [i \in DOMAIN progress_data |->
                         [key |-> progress_data[i].key, val |-> << >>]]
              /\ save_progress(progress_data')
              /\ \E rl \in Shuffles(words) :
                     get_new_word(rl, words, remembered_words', {})
         ELSE /\ event' = "r"
              /\ UNCHANGED <<remembered_words, progress_data, file, faults,
                             current, round_list, revealed, shown>>
    /\ UNCHANGED <<running, current_list, words>>

\* reset_current(): key r or the button, then the answer to askyesno
reset_current ==
    /\ running
    /\ \E yes \in BOOLEAN :
         IF yes
         THEN /\ event' = "resetCurrentList"
              /\ remembered_words' = {}
              /\ progress_data' = DictSet(progress_data, current_list, << >>)
              /\ save_progress(progress_data')
              /\ \E rl \in Shuffles(words) :
                     get_new_word(rl, words, remembered_words', {})
         ELSE /\ event' = "r"
              /\ UNCHANGED <<remembered_words, progress_data, file, faults,
                             current, round_list, revealed, shown>>
    /\ UNCHANGED <<running, current_list, words>>

\* reset_all with line 231 of reset_current in place of the loop
reset_all_OnlyCurrent ==
    /\ running
    /\ \E yes \in BOOLEAN :
         IF yes
         THEN /\ event' = "resetAllLists"
              /\ progress_data' = DictSet(progress_data, current_list, << >>)
              /\ remembered_words' = {}
              /\ save_progress(progress_data')
              /\ \E rl \in Shuffles(words) :
                     get_new_word(rl, words, remembered_words', {})
         ELSE /\ event' = "R"
              /\ UNCHANGED <<remembered_words, progress_data, file, faults,
                             current, round_list, revealed, shown>>
    /\ UNCHANGED <<running, current_list, words>>

\* reset_all(): key R or the button, then the answer to askyesno
reset_all ==
    /\ running
    /\ \E yes \in BOOLEAN :
         IF yes
         THEN /\ event' = "resetAllLists"
              /\ progress_data' =
                     [i \in DOMAIN progress_data |->
                         [key |-> progress_data[i].key, val |-> << >>]]
              /\ remembered_words' = {}
              /\ save_progress(progress_data')
              /\ \E rl \in Shuffles(words) :
                     get_new_word(rl, words, remembered_words', {})
         ELSE /\ event' = "R"
              /\ UNCHANGED <<remembered_words, progress_data, file, faults,
                             current, round_list, revealed, shown>>
    /\ UNCHANGED <<running, current_list, words>>

\* on_list_change with remembered_words.update(...), as line 301 of main has
\* it, in place of the assignment of line 265
on_list_change_Update(new_value) ==
    /\ running
    /\ event' = "selectList"
    /\ current_list' = new_value
    /\ words' \in load_words(new_value)
    /\ progress_data' = (IF DictHas(progress_data, new_value) THEN progress_data
                         ELSE DictSet(progress_data, new_value, << >>))
    /\ remembered_words' =
           remembered_words \cup SetOf(DictGet(progress_data', new_value))
    /\ \E rl \in Shuffles(Unremembered(words', remembered_words')) :
           get_new_word(rl, words', remembered_words', {})
    /\ UNCHANGED <<running, file, faults>>

\* on_list_change(new_value): the list chosen in the option menu
on_list_change(new_value) ==
    /\ running
    /\ event' = "selectList"
    /\ current_list' = new_value
    /\ words' \in load_words(new_value)
    /\ progress_data' = (IF DictHas(progress_data, new_value) THEN progress_data
                         ELSE DictSet(progress_data, new_value, << >>))
    /\ remembered_words' = SetOf(DictGet(progress_data', new_value))
    /\ \E rl \in Shuffles(Unremembered(words', remembered_words')) :
           get_new_word(rl, words', remembered_words', {})
    /\ UNCHANGED <<running, file, faults>>

ListChange == \E new_value \in Lists : on_list_change(new_value)

Next ==
    \/ Main
    \/ KeyQ
    \/ KeyReturn
    \/ KeySpace
    \/ KeyN
    \/ reset_current
    \/ reset_all
    \/ ListChange

Spec == Init /\ [][Next]_vars

\* the process is killed inside save_progress(), called by the handler of
\* space, r or R, after open(progress_file, "w") has truncated the file and
\* before json.dump has written it
CrashInSave ==
    /\ running
    /\ faults > 0
    /\ faults' = faults - 1
    /\ file' = Corrupt
    /\ running' = FALSE
    /\ event' = "crash"
    /\ progress_data' = << >>
    /\ current_list' = 1
    /\ words' = << >>
    /\ remembered_words' = {}
    /\ current' = None
    /\ round_list' = << >>
    /\ revealed' = FALSE
    /\ shown' = {}

NextF == Next \/ CrashInSave

\* the same program with write errors of progress.json and crashes in a write
SpecF == InitF /\ [][NextF]_vars

---------------------------------------------------------------------------
(* save_progress() and load_progress() on their own, applied to any store  *)

\* the module as imported, with progress_data set to any dict of lists
InitRT ==
    /\ running = FALSE
    /\ progress_data \in Stores(MaxStored + 1)
    /\ current_list = 1
    /\ words = << >>
    /\ remembered_words = {}
    /\ current = None
    /\ round_list = << >>
    /\ revealed = FALSE
    /\ file = Absent
    /\ event = "import"
    /\ shown = {}
    /\ faults \in {0, MaxFaults}

\* a call of save_progress()
CallSave ==
    /\ save_progress(progress_data)
    /\ event' = (IF faults' = faults THEN "save" ELSE "save_failed")
    /\ UNCHANGED <<running, progress_data, current_list, words,
                   remembered_words, current, round_list, revealed, shown>>

\* a call of load_progress()
CallLoad ==
    /\ progress_data' = load_progress(file, current_list)
    /\ event' = "load"
    /\ UNCHANGED <<running, current_list, words, remembered_words, current,
                   round_list, revealed, file, faults, shown>>

NextRT == CallSave \/ CallLoad

SpecRT == InitRT /\ [][NextRT]_vars

---------------------------------------------------------------------------
(* Properties *)

\* every entry of words has its word in remembered_words (so also: no words)
AllRemembered == \A i \in DOMAIN words : words[i].word \in remembered_words

\* the different word texts of the active list that are not remembered
UnrememberedWords ==
    {words[i].word : i \in DOMAIN words} \ remembered_words

\* the step asks for a new word with Return or n
AdvanceOrSkip == event' \in {"advance", "skip"}

\* C1: an advance or a skip never makes an entry current whose word is in
\* the remembered set, which holds every word marked since the last reset.
C1_RememberedNeverShown ==
    [][AdvanceOrSkip =>
          /\ remembered_words' = remembered_words
          /\ current' = None \/ current'.word \notin remembered_words]_vars

\* C1 witness: in this round a word was shown and marked, and an advance or
\* skip after that has put another, unremembered entry on display.
C1_Witness ==
    /\ event \in {"advance", "skip"}
    /\ current # None
    /\ current.word \notin remembered_words
    /\ \E e \in shown : e # current /\ e.word \in remembered_words

\* C2 as stated: once a list is active, current is absent if and only if all
\* words are remembered or there are none.
C2_Original == running => (current = None <=> AllRemembered)

\* C2 amended: current is absent only if all words are remembered or there
\* are none; the converse holds in the states left by an operation that asks
\* for a new word (startup, selectList, a confirmed reset, advance, skip).
\* After markRemembered the marked word stays on display.
C2_AbsentIffExhaustedAfterNewWord ==
    running =>
        /\ current = None => AllRemembered
        /\ event \in {"main", "selectList", "resetCurrentList",
                      "resetAllLists", "advance", "skip"}
              => (AllRemembered => current = None)

\* C2 witness: an advance found every word of a non-empty list remembered.
C2_Witness ==
    /\ running
    /\ event = "advance"
    /\ words # << >>
    /\ AllRemembered
    /\ current = None

\* C3 as stated: a skip leaves the remembered set and the store alone and,
\* with more than one unremembered word, shows a word other than W.
C3_Original ==
    [][event' = "skip" =>
          /\ remembered_words' = remembered_words
          /\ progress_data' = progress_data
          /\ file' = file
          /\ Cardinality(UnrememberedWords) > 1 =>
                 current' # None /\ current'.word # current.word]_vars

\* C3 amended: a skip leaves the remembered set and the store alone; if the
\* round queue still holds an unremembered entry, the first of them becomes
\* current, which is another row than W's and has another word unless the
\* list repeats W's text.  When W was the last entry of the round, the new
\* round is shuffled afresh and may start with W again.
C3_SkipWithinRound ==
    [][event' = "skip" =>
          /\ remembered_words' = remembered_words
          /\ progress_data' = progress_data
          /\ file' = file
          /\ LET rest == Unremembered(round_list, remembered_words)
             IN  rest # << >> =>
                   /\ current' = Head(rest)
                   /\ current' # current
                   /\ current'.word = current.word =>
                        \E i, j \in DOMAIN words :
                            /\ i # j
                            /\ words[i].word = current.word
                            /\ words[j].word = current.word]_vars

\* C3 witness: a skip has moved on to the second entry of a round.
C3_Witness ==
    /\ event = "skip"
    /\ current # None
    /\ Cardinality(shown) >= 2
    /\ current.word \notin remembered_words

\* C4: within a round no entry is made current twice, and when the round
\* queue is rebuilt every entry whose word is not remembered has been current
\* in the round that ends.
C4_RoundCompleteness ==
    [][AdvanceOrSkip =>
          IF Unremembered(round_list, remembered_words) # << >>
          THEN current' \notin shown
          ELSE \A i \in DOMAIN words :
                   words[i].word \notin remembered_words => words[i] \in shown]_vars

\* C4 witness: an advance or skip has rebuilt the round queue of a list with
\* several unremembered entries.
C4_Witness ==
    /\ event \in {"advance", "skip"}
    /\ current # None
    /\ shown = {current}
    /\ round_list # << >>

\* two dicts with the same keys and the same list for each key
DictEq(a, b) ==
    /\ DictKeys(a) = DictKeys(b)
    /\ \A k \in DictKeys(a) : DictGet(a, k) = DictGet(b, k)

\* the list that progress.json holds for list identifier k (none: empty)
PersistedEntry(f, k) ==
    DictGet(IF f.kind = "dict" THEN JsonLoad(f.text) ELSE << >>, k)

\* the entries of the other list identifiers are as before the step
OtherEntriesUnchanged ==
    \A k \in Lists \ {current_list} :
        /\ DictHas(progress_data', k) = DictHas(progress_data, k)
        /\ DictGet(progress_data', k) = DictGet(progress_data, k)
        /\ PersistedEntry(file', k) = PersistedEntry(file, k)

\* C5 as stated: a load that follows a save leaves a store equal to the one
\* saved, for every store.
C5_Original ==
    [][(event = "save" /\ event' = "load") =>
          DictEq(progress_data', progress_data)]_vars

\* C5 amended: a load that follows a save which wrote the file leaves the
\* store saved, keys in the same order and each list unchanged, with an empty
\* entry for the active list appended when the store had none.
C5_RoundTripAddsActiveList ==
    [][(event = "save" /\ event' = "load") =>
          progress_data' =
              (IF DictHas(progress_data, current_list) THEN progress_data
               ELSE Append(progress_data,
                           [key |-> current_list, val |-> << >>]))]_vars

\* C5 witness: a store of two lists, one of them of two words, has been
\* written and loaded again.
C5_Witness ==
    /\ event = "load"
    /\ file.kind = "dict"
    /\ Len(progress_data) >= 2
    /\ \E k \in Lists : Len(DictGet(progress_data, k)) >= 2
    /\ file = DictFile(progress_data)

\* C6: markRemembered adds current.word to the remembered set, makes the
\* active list's store entry a list of exactly the remembered words, writes
\* the store to progress.json, and leaves current, revealed, round_list,
\* words and the entries of the other lists as they were.
C6_MarkRememberedFrame ==
    [][event' = "markRemembered" =>
          /\ current # None
          /\ remembered_words' = remembered_words \cup {current.word}
          /\ SetOf(DictGet(progress_data', current_list)) = remembered_words'
          /\ Len(DictGet(progress_data', current_list)) =
                 Cardinality(remembered_words')
          /\ faults' = faults => file' = DictFile(progress_data')
          /\ SetOf(PersistedEntry(file', current_list)) = remembered_words'
          /\ OtherEntriesUnchanged
          /\ UNCHANGED <<current, revealed, round_list, words, current_list>>]_vars

\* C6 witness: a word was marked while other entries wait in round_list, and
\* it is still on display.
C6_Witness ==
    /\ event = "markRemembered"
    /\ current # None
    /\ current.word \in remembered_words
    /\ round_list # << >>
    /\ revealed

\* the events of the keys Return, space and n
KeyEvents ==
    {"Return", "reveal", "advance", "space", "markRemembered", "n", "skip"}

\* C7: when every word of the active list is remembered, Return, space and n
\* keep it so, the first advance or skip makes current absent, and an absent
\* current stays absent; selecting a list whose words are all remembered
\* leaves current absent too.
C7_ExhaustedStaysAbsent ==
    [][/\ (running /\ AllRemembered /\ event' \in KeyEvents) =>
             /\ AllRemembered'
             /\ event' \in {"advance", "skip"} => current' = None
             /\ current = None => current' = None
             /\ current' \in {current, None}
       /\ (event' = "selectList" /\ AllRemembered') => current' = None]_vars

\* C7 witness: with every word of a non-empty list remembered and nothing on
\* display, a key was pressed and nothing is on display.
C7_Witness ==
    /\ running
    /\ event \in {"Return", "space", "n"}
    /\ words # << >>
    /\ Cardinality(remembered_words) >= 2
    /\ AllRemembered
    /\ current = None

\* the events of the key Return
ReturnEvents == {"Return", "reveal", "advance"}

\* C8 as stated: a Return that follows a reveal leaves revealed true and
\* current unchanged.
C8_Original ==
    [][(event = "reveal" /\ event' \in ReturnEvents) =>
          (revealed' /\ current' = current)]_vars

\* C8 amended: a Return with the definition hidden reveals it and leaves
\* current and round_list unchanged; a Return that follows a reveal is handled
\* as advance: it hides the definition and puts the next unremembered entry
\* on display, or nothing.
C8_SecondReturnAdvances ==
    [][/\ (event' \in ReturnEvents /\ current # None /\ ~revealed) =>
             /\ event' = "reveal"
             /\ revealed'
             /\ UNCHANGED <<current, round_list, remembered_words>>
       /\ (event = "reveal" /\ event' \in ReturnEvents) =>
             /\ revealed /\ current # None
             /\ event' = "advance"
             /\ ~revealed'
             /\ current' = None \/ current'.word \notin remembered_words
             /\ LET rest == Unremembered(round_list, remembered_words)
                IN  rest # << >> => current' = Head(rest) /\ current' # current]_vars

\* C8 witness: Return was pressed twice in a row and another entry is on
\* display with its definition hidden.
C8_Witness ==
    /\ event = "advance"
    /\ current # None
    /\ ~revealed
    /\ Cardinality(shown) >= 2

\* C9: a confirmed resetCurrentList empties the remembered set and the
\* active list's entry in the store and in progress.json, leaves the entries
\* of the other lists unchanged, and the display then reports 0 remembered
\* of as many words as the active list has.
C9_ResetCurrentFrame ==
    [][event' = "resetCurrentList" =>
          /\ remembered_words' = {}
          /\ DictHas(progress_data', current_list)
          /\ DictGet(progress_data', current_list) = << >>
          /\ faults' = faults =>
                 /\ file' = DictFile(progress_data')
                 /\ PersistedEntry(file', current_list) = << >>
          /\ OtherEntriesUnchanged
          /\ DisplayRemembered' = 0
          /\ DisplayTotal' = Len(words)
          /\ UNCHANGED <<words, current_list>>]_vars

\* C9 witness: the active list was reset while another list has remembered
\* words in the store and in progress.json.
C9_Witness ==
    /\ event = "resetCurrentList"
    /\ words # << >>
    /\ remembered_words = {}
    /\ \E k \in Lists \ {current_list} :
           /\ DictGet(progress_data, k) # << >>
           /\ PersistedEntry(file, k) # << >>

\* the entries of round_list and current together are the entries ws
RoundHolds(ws) ==
    LET round == IF current = None THEN round_list
                 ELSE <<current>> \o round_list
    IN  /\ Len(round) = Len(ws)
        /\ \A i \in DOMAIN ws :
               Cardinality({j \in DOMAIN round : round[j] = ws[i]}) =
               Cardinality({j \in DOMAIN ws : ws[j] = ws[i]})

\* C10: a confirmed resetAllLists empties the entry of every list identifier
\* of the store, keeps the identifiers, writes the store, empties the
\* remembered set and rebuilds the round of the active list from all its
\* words; and a selectList in a store whose entries are all empty starts with
\* an empty remembered set and a round of all words of the list.
C10_ResetAllClearsEveryList ==
    [][/\ event' = "resetAllLists" =>
             /\ DictKeys(progress_data') = DictKeys(progress_data)
             /\ \A k \in Lists : DictGet(progress_data', k) = << >>
             /\ faults' = faults =>
                    /\ file' = DictFile(progress_data')
                    /\ \A k \in Lists : PersistedEntry(file', k) = << >>
             /\ remembered_words' = {}
             /\ RoundHolds(words)'
             /\ UNCHANGED <<words, current_list>>
       /\ (event' = "selectList"
             /\ \A k \in Lists : DictGet(progress_data, k) = << >>) =>
             /\ remembered_words' = {}
             /\ RoundHolds(words)']_vars

\* C10 witness: all lists were reset in a store of several lists, and the
\* first word of the new round of the active list is on display.
C10_Witness ==
    /\ event = "resetAllLists"
    /\ Cardinality(DictKeys(progress_data)) >= 2
    /\ current # None
    /\ round_list # << >>
    /\ file = DictFile(progress_data)


\* C11: leaving a list loses no mark.  When a list is left its store entry
\* holds exactly its remembered set; while another list is active no command
\* other than resetAllLists changes that entry; and a selectList takes the
\* remembered set from the store entry of the list selected.  Only current,
\* round_list and revealed of the list left are discarded.
C11_SwitchKeepsMarks ==
    [][/\ event' = "selectList" =>
             /\ SetOf(DictGet(progress_data, current_list)) = remembered_words
             /\ \A k \in Lists :
                    SetOf(DictGet(progress_data', k)) =
                    SetOf(DictGet(progress_data, k))
             /\ remembered_words' =
                    SetOf(DictGet(progress_data, current_list'))
       /\ (running /\ event' \notin {"resetAllLists", "q", "selectList"}) =>
             \A k \in Lists \ {current_list} :
                 DictGet(progress_data', k) = DictGet(progress_data, k)]_vars

\* C11 witness: a list whose two words were marked in this process is active
\* after a selectList, while the other list has a remembered word too.
C11_Witness ==
    /\ event = "selectList"
    /\ Cardinality(remembered_words) >= 2
    /\ Len(DictGet(progress_data, current_list)) >= 2
    /\ \E k \in Lists \ {current_list} : DictGet(progress_data, k) # << >>


\* the words that load_progress() returns for list identifier k from file f
LoadedWords(f, k) == SetOf(DictGet(load_progress(f, 1), k))

\* C12 as stated: after a crash in the middle of a save, a load still returns
\* every word that progress.json held before, for every list.
C12_CrashKeepsPersisted ==
    [][event' = "crash" =>
          \A k \in Lists : LoadedWords(file, k) \subseteq LoadedWords(file', k)]_vars


\* the commands that call save_progress()
SavingEvents == {"markRemembered", "resetCurrentList", "resetAllLists"}

\* C13: a command whose save raises still completes: the process keeps
\* running and remembered_words and the store entry of the active list are
\* updated as when the save succeeds; and every save that succeeds writes the
\* whole in-memory store, so that progress.json then loads as the in-memory
\* store, with the changes whose saves had failed.
C13_FailedSaveSwallowed ==
    [][event' \in SavingEvents =>
          /\ running'
          /\ event' = "markRemembered" =>
                 /\ remembered_words' = remembered_words \cup {current.word}
                 /\ SetOf(DictGet(progress_data', current_list)) =
                        remembered_words'
                 /\ UNCHANGED <<current, round_list, revealed>>
          /\ event' # "markRemembered" =>
                 /\ remembered_words' = {}
                 /\ DictGet(progress_data', current_list) = << >>
                 /\ RoundHolds(words)'
          /\ faults' < faults => file' \in {file, Corrupt}
          /\ faults' = faults =>
                 /\ file' = DictFile(progress_data')
                 /\ DictEq(load_progress(file', 1), progress_data')]_vars

\* C13 witness: the save of a mark has raised; the process runs on with the
\* word in the remembered set and in the store, while progress.json, left as
\* it was, does not hold it.
C13_Witness ==
    /\ running
    /\ event = "markRemembered"
    /\ faults = 0
    /\ current # None
    /\ current.word \in SetOf(DictGet(progress_data, current_list))
    /\ file.kind = "dict"
    /\ current.word \notin LoadedWords(file, current_list)


\* the commands that end with a call of get_new_word()
NewWordEvents ==
    {"main", "selectList", "resetCurrentList", "resetAllLists", "advance",
     "skip"}

\* C14 as stated: in every state no entry of round_list has a remembered
\* word, also right after markRemembered and with repeated word text.
C14_Original ==
    running =>
        \A i \in DOMAIN round_list : round_list[i].word \notin remembered_words

\* C14: round_list holds no remembered word in the state left by any command
\* that calls get_new_word(); in the other states an entry of round_list with
\* a remembered word is a row with the word text of the entry on display,
\* marked since it became current, so with distinct word texts there is none.
C14_RoundListPurgedLazily ==
    running =>
        \A i \in DOMAIN round_list :
            round_list[i].word \in remembered_words =>
                /\ event \notin NewWordEvents
                /\ current # None
                /\ round_list[i].word = current.word

\* C14 witness: right after markRemembered on a list of distinct words, with
\* entries still waiting in round_list
C14_Witness ==
    /\ running
    /\ event = "markRemembered"
    /\ current # None
    /\ current.word \in remembered_words
    /\ round_list # << >>
    /\ \A i \in DOMAIN round_list : round_list[i].word \notin remembered_words


\* C15: in every state after startup the remembered set equals, as a set, the
\* entry of the active list in the in-memory progress store.
C15_RememberedIsStoreEntry ==
    running =>
        remembered_words = SetOf(DictGet(progress_data, current_list))

\* C15 witness: a word has been marked on a list selected after startup while
\* the store holds marks of another list
C15_Witness ==
    /\ running
    /\ event = "markRemembered"
    /\ current_list # 1
    /\ remembered_words # {}
    /\ remembered_words = SetOf(DictGet(progress_data, current_list))
    /\ SetOf(DictGet(progress_data, 1)) \notin {{}, remembered_words}


\* the commands that start a round: startup, selectList and the confirmed
\* resets
RoundInitEvents == {"main", "selectList", "resetCurrentList", "resetAllLists"}

\* C16: in the state left by a round-initialising command revealed is false,
\* current together with round_list holds exactly the rows of words whose
\* word is not remembered, each row once, and current is absent exactly when
\* there is no such row.
C16_RoundInitialised ==
    (running /\ event \in RoundInitEvents) =>
        /\ ~revealed
        /\ RoundHolds(Unremembered(words, remembered_words))
        /\ current = None <=> Unremembered(words, remembered_words) = << >>

\* C16 witness: a round started, at startup or on selection, on a list with
\* one word remembered and one not
C16_Witness ==
    /\ running
    /\ event \in {"main", "selectList"}
    /\ remembered_words # {}
    /\ words # << >>
    /\ current # None
    /\ Len(Unremembered(words, remembered_words)) < Len(words)


\* C17: no state after startup has an unremembered word and current absent
\* (the state in which key Return is ignored); and when some word of the
\* list is unremembered, every advance, the one on an empty round_list that
\* rebuilds the round included, ends with current present and unremembered.
C17_AdvanceYieldsWord ==
    [][/\ (running' /\ current' = None) => AllRemembered'
       /\ (event' = "advance" /\ ~AllRemembered) =>
              /\ current' # None
              /\ current'.word \notin remembered_words'
              /\ \E i \in DOMAIN words' : words'[i] = current']_vars

\* C17 witness: an advance found round_list empty and rebuilt the round from
\* a list that has a remembered word
C17_Witness ==
    /\ running
    /\ event = "advance"
    /\ current # None
    /\ shown = {current}
    /\ remembered_words # {}
    /\ current.word \notin remembered_words


\* C18: every step that makes a word current (advance, skip, selectList, the
\* resets) or otherwise changes current ends with revealed false; revealed
\* turns true only by reveal, with current present and unchanged; so the
\* definition on display is empty unless the word on display has been
\* revealed since it became current.
C18_RevealedResets ==
    [][/\ (event' \in NewWordEvents \/ current' # current) =>
              /\ ~revealed'
              /\ DisplayDefinition' = 0
       /\ (revealed' /\ ~revealed) =>
              /\ event' = "reveal"
              /\ current # None
              /\ current' = current
       /\ DisplayDefinition' # 0 =>
              /\ revealed'
              /\ current' # None
              /\ DisplayDefinition' = current'.definition]_vars

\* C18 witness: the definition of a later word of the round is on display; it
\* was hidden when the word became current and has been revealed since
C18_Witness ==
    /\ running
    /\ event = "reveal"
    /\ revealed
    /\ current # None
    /\ Cardinality(shown) >= 2
    /\ DisplayDefinition = current.definition


\* the events of key n and of key space
NEvents == {"n", "skip"}
SpaceEvents == {"space", "markRemembered"}

\* C19: key n with the definition hidden, and keys Return, n and space with
\* no word on display, change none of words, remembered_words, round_list,
\* current, revealed and progress_data, and do not save: progress.json is
\* not written.
C19_InvalidCommandsNoOp ==
    [][(\/ event' \in NEvents /\ (~revealed \/ current = None)
        \/ event' \in ReturnEvents \cup SpaceEvents /\ current = None) =>
          /\ event' \in {"n", "Return", "space"}
          /\ UNCHANGED <<words, remembered_words, round_list, current,
                         revealed, progress_data, current_list>>
          /\ UNCHANGED <<file, faults>>]_vars

\* C19 witness: key n was pressed with the definition hidden while other
\* words wait in round_list, and was ignored
C19_Witness ==
    /\ running
    /\ event = "n"
    /\ current # None
    /\ ~revealed
    /\ round_list # << >>


\* every remembered word is the word of some row of the active list
RememberedWithinWords ==
    \A w \in remembered_words : \E i \in DOMAIN words : words[i].word = w

\* C20: in every state after startup the display reports remembered <= total,
\* every remembered word is the word of a row of the active list, and in the
\* state left by an advance on a list that has rows remembered = total
\* exactly when current is absent.
C20_DisplayCounts ==
    running =>
        /\ DisplayRemembered <= DisplayTotal
        /\ RememberedWithinWords
        /\ (event = "advance" /\ words # << >>) =>
               (DisplayRemembered = DisplayTotal <=> current = None)

====
